---- MODULE Spec2Model ----
(***************************************************************************)
(* mcp-telegram: the MTProto daemon (daemon.py), its UserClient wrapper    *)
(* (user/client.py), and the CLI lifecycle commands (cli.py).              *)
(*                                                                         *)
(* Operating-system processes are identified by their pid.  The shared     *)
(* files are the config file, the Session file and the PID file (the       *)
(* "Process Record").  Every step of a process that touches a shared file, *)
(* a socket or a signal is one action, so steps of different processes     *)
(* interleave exactly where the operating system lets them.                *)
(***************************************************************************)
EXTENDS Integers, FiniteSets, Sequences, TLC

\* ------------------------------------------------------------------ bounds
MaxProcs == 2        \* daemon processes that may ever be spawned
MaxReqs == 2         \* control requests in flight at once
MaxMsgs == 3         \* messages the conversation may hold
MaxDialogs == 3      \* dialogs the backend may hold
Tick == 15           \* seconds by which a waiting client's clock advances

\* ------------------------------------------------------- program constants
StartPolls == 20     \* cli.py daemon_start: for _ in range(20)
StopPolls == 10      \* cli.py daemon_stop: for _ in range(10)
CliDefaultTimeout == 30     \* cli.py daemon_request: timeout: float = 30.0
CliDownloadTimeout == 120   \* cli.py user_download: timeout=120.0
McpDefaultTimeout == 60     \* server.py daemon_request: timeout: float = 60.0
McpDownloadTimeout == 120   \* server.py call_tool user_download_media: timeout=120.0
CliProbeTimeout == 5        \* cli.py is_daemon_running: timeout=5.0

Procs == 1..MaxProcs
Reqs == 1..MaxReqs

\* Content of the PID file: absent, unparsable text, or a pid.
Absent == 0
Garbage == -1

VARIABLES
    configured,   \* config.json holds api_id, api_hash and phone (Config.has_user)
    authorized,   \* the Session file holds a valid authorization
    record,       \* the PID file: Absent, Garbage or a pid
    listener,     \* pid of the process bound to daemon.host:daemon.port, 0 if none
    daemon,       \* per daemon process: its position in run_daemon and its globals
    loginpc,      \* position of the login process in do_login
    cli,          \* the CLI command being executed (cli.py / daemon.py main)
    req,          \* control requests being handled by the serving daemon
    chat,         \* the conversation as the backend holds it, newest message first
    call          \* the UserClient operation or client request last made

vars == <<configured, authorized, record, listener, daemon, loginpc, cli, req,
          chat, call>>

\* ------------------------------------------------------------- daemon state
\* pc       position in run_daemon ("none": pid not in use yet)
\* outcome  how the process ended ("" while it has not)
\* wrote    this process has written its pid to the PID file (line 326)
\* client   the module global _client: 0 for None, else the UserClient's identity
\* made     number of UserClient objects this process has constructed
\* tg       UserClient._client is not None (a TelegramClient was constructed)
\* sess     the TelegramClient holds the Session file open
\* connected TelegramClient.is_connected()
\* me       startup get_me returned a real profile (authorization verified)
\* sig      a termination signal is pending for the process
\* stale    its PID-file check found a record that names no live process
\*          (remembered while the process is starting)
NewDaemon ==
    [pc |-> "none", outcome |-> "", wrote |-> FALSE, client |-> 0, made |-> 0,
     tg |-> FALSE, sess |-> FALSE, connected |-> FALSE, me |-> FALSE,
     sig |-> FALSE, stale |-> FALSE]

Alive(p) == daemon[p].pc \notin {"none", "exited"}

\* os.kill(pid, 0) / os.kill(pid, SIGTERM) succeed iff the pid names a live process.
KillSucceeds(r) == r \in Procs /\ Alive(r)

\* Process exit: its memory is gone and the OS closes its sockets and files.
Exited(d, why) ==
    [d EXCEPT !.pc = "exited", !.outcome = why, !.client = 0, !.tg = FALSE,
              !.sess = FALSE, !.connected = FALSE, !.me = FALSE, !.sig = FALSE,
              !.stale = FALSE]

\* pc       position of the handler task ("idle": no request in the slot)
\* d        the daemon process handling it; client: what get_client returned
\* op       the route; json, body, file: what the request carries
\* authz    what the session was when get_client asked ("unchecked" before)
\* connects transport connects attempted on behalf of the request
\* dialing  the request is suspended inside the transport's connect()
\* calls    backend operations invoked on behalf of the request
\* resp     the response sent
NoResponse == [kind |-> "none", ok |-> FALSE, error |-> ""]

IdleReq ==
    [pc |-> "idle", d |-> 0, client |-> 0, op |-> "none", json |-> TRUE,
     body |-> {}, file |-> FALSE, authz |-> "unchecked", connects |-> 0,
     dialing |-> FALSE, calls |-> 0, resp |-> NoResponse]

\* Requests being handled by process p die with it.
AbortReqs(p) ==
    [r \in Reqs |-> IF req[r].d = p /\ req[r].pc # "idle" THEN IdleReq ELSE req[r]]

FreePort(p) == IF listener = p THEN 0 ELSE listener

\* cmd     the command ("none" before the first one)
\* pc      its position; n: probes made by its polling loop
\* pid     the pid it signalled; child: the daemon process it spawned
\* report  what it printed when it ended
\* live    at its first probe the PID file named a live process
\* stale   the pid it read from the PID file named no live process
\* stopped what daemon_stop printed inside restart ("" until it has returned)
IdleCli == [cmd |-> "none", pc |-> "done", n |-> 0, pid |-> 0, child |-> 0,
            report |-> "", live |-> FALSE, stale |-> FALSE, stopped |-> ""]

\* daemon_stop returns: the command is over, or daemon_restart (cli.py 422-424)
\* goes on to its settle delay.
StopReturns(c, report) ==
    IF c.cmd = "restart"
    THEN [c EXCEPT !.pc = "settle", !.n = 0, !.stopped = report]
    ELSE [c EXCEPT !.pc = "done", !.n = 0, !.report = report]

\* No UserClient operation has been made yet.
NoCall == [op |-> "none"]

Init ==
    /\ configured \in BOOLEAN
    /\ authorized \in BOOLEAN
    /\ authorized => configured
    /\ record \in {Absent, Garbage}
    /\ listener = 0
    /\ daemon = [p \in Procs |-> NewDaemon]
    /\ loginpc = "idle"
    /\ cli = IdleCli
    /\ req = [r \in Reqs |-> IdleReq]
    /\ chat = <<>>
    /\ call = NoCall

\* ================================================================ run_daemon

\* `python -m mcp_telegram.daemon start` (daemon.py main -> daemon_start), or
\* `tg daemon start --foreground`: a new process enters run_daemon.
main_start(p) ==
    /\ daemon[p].pc = "none"
    /\ \A q \in Procs : q < p => daemon[q].pc # "none"
    /\ daemon' = [daemon EXCEPT ![p].pc = "load_config"]
    /\ UNCHANGED <<configured, authorized, record, listener, loginpc, cli, req, chat, call>>

run_daemon_load_config_unchecked(p) ==
    /\ daemon[p].pc = "load_config"
    /\ daemon' = [daemon EXCEPT ![p].pc = "check_pid"]
    /\ UNCHANGED <<configured, authorized, record, listener, loginpc, cli, req, chat, call>>

\* daemon.py 307-311
run_daemon_load_config(p) ==
    /\ daemon[p].pc = "load_config"
    /\ daemon' = [daemon EXCEPT ![p] =
                    IF configured THEN [@ EXCEPT !.pc = "check_pid"]
                    ELSE Exited(@, "not_configured")]
    /\ UNCHANGED <<configured, authorized, record, listener, loginpc, cli, req, chat, call>>

run_daemon_check_pid_unchecked(p) ==
    /\ daemon[p].pc = "check_pid"
    /\ daemon' = [daemon EXCEPT ![p].pc = "write_pid"]
    /\ UNCHANGED <<configured, authorized, record, listener, loginpc, cli, req, chat, call>>

\* daemon.py 313-323: exists, read_text, int, os.kill(old_pid, 0); a record
\* that does not parse (ValueError) or names no process (OSError) is passed
\* over as stale.
run_daemon_check_pid(p) ==
    /\ daemon[p].pc = "check_pid"
    /\ daemon' = [daemon EXCEPT ![p] =
                    IF KillSucceeds(record) THEN Exited(@, "already_running")
                    ELSE [@ EXCEPT !.pc = "write_pid", !.stale = (record # Absent)]]
    /\ UNCHANGED <<configured, authorized, record, listener, loginpc, cli, req, chat, call>>

\* daemon.py 326
run_daemon_write_pid(p) ==
    /\ daemon[p].pc = "write_pid"
    /\ record' = p
    /\ daemon' = [daemon EXCEPT ![p].pc = "connect", ![p].wrote = TRUE]
    /\ UNCHANGED <<configured, authorized, listener, loginpc, cli, req, chat, call>>

\* ------------------------------------------------------------- UserClient
\* UserClient(config): a new object; its identity is its ordinal in the process.
UserClient_init(d) == [d EXCEPT !.made = @ + 1, !.client = d.made + 1]

\* UserClient.client (client.py 29-42): the TelegramClient is constructed on first
\* use, which opens the Session file.
UserClient_client(d) ==
    IF d.tg THEN d ELSE [d EXCEPT !.tg = TRUE, !.sess = TRUE]

\* UserClient.connect (client.py 44-47); net: the transport connect succeeds.
UserClient_connect(d, net) ==
    LET c == UserClient_client(d)
    IN  IF c.connected \/ ~net THEN c ELSE [c EXCEPT !.connected = TRUE]

\* UserClient.disconnect (client.py 49-52), when it returns normally.
UserClient_disconnect(d) ==
    IF d.tg /\ d.connected THEN [d EXCEPT !.connected = FALSE, !.sess = FALSE]
    ELSE d

\* daemon.py 329-336: _client = UserClient(_config); me = await _client.get_me().
\* client.py 59-71: get_me connects, then asks the backend for the account.  An
\* unauthorized session makes the library return no user and UserClient.get_me
\* returns {} without raising; a transport error raises, and run_daemon then
\* removes the PID file and exits.
run_daemon_connect(p) ==
    /\ daemon[p].pc = "connect"
    /\ \E net \in BOOLEAN :
         LET d == UserClient_connect(UserClient_init(daemon[p]), net)
         IN  IF net
             THEN /\ daemon' = [daemon EXCEPT ![p] =
                                  [d EXCEPT !.pc = "listen", !.me = authorized]]
                  /\ record' = record
             ELSE /\ daemon' = [daemon EXCEPT ![p] = Exited(d, "connect_failed")]
                  /\ record' = Absent
    /\ UNCHANGED <<configured, authorized, listener, loginpc, cli, req, chat, call>>

\* daemon.py 339-365: signal handlers installed, runner.setup(), site.start().
\* Binding fails when the port is taken, by another daemon or by a foreign
\* program; the OSError is not caught and ends the process.
run_daemon_listen(p) ==
    /\ daemon[p].pc = "listen"
    /\ \E foreign \in BOOLEAN :
         IF listener = 0 /\ ~foreign
         THEN /\ listener' = p
              /\ daemon' = [daemon EXCEPT ![p].pc = "serving", ![p].stale = FALSE]
         ELSE /\ listener' = listener
              /\ daemon' = [daemon EXCEPT ![p] = Exited(@, "bind_failed")]
    /\ UNCHANGED <<configured, authorized, record, loginpc, cli, req, chat, call>>

\* Delivery of a pending SIGTERM.  Before line 353 the default disposition ends
\* the process.  From line 353 on handle_signal (347-350) stops the loop and
\* asyncio.run cancels the main task: awaiting setup/start the CancelledError is
\* not caught, in the serving loop (368-372) it leads to the finally block, and
\* during the finally block a second stop of the loop abandons the cleanup.
run_daemon_handle_signal(p) ==
    /\ Alive(p)
    /\ daemon[p].sig
    /\ IF daemon[p].pc = "serving"
       THEN /\ daemon' = [daemon EXCEPT ![p].pc = "shutdown", ![p].sig = FALSE]
            /\ listener' = listener
       ELSE /\ daemon' = [daemon EXCEPT ![p] =
                 Exited(@, IF @.pc \in {"shutdown", "unlink", "cleanup"}
                           THEN "interrupted" ELSE "killed")]
            /\ listener' = FreePort(p)
    /\ req' = AbortReqs(p)
    /\ UNCHANGED <<configured, authorized, record, loginpc, cli, chat, call>>

\* daemon.py 341-344 (shutdown, called from the finally block at 374):
\* `if _client: await _client.disconnect()`.  A raising disconnect leaves the
\* finally block at once.
shutdown_disconnect(p) ==
    /\ daemon[p].pc = "shutdown"
    /\ \E raises \in BOOLEAN :
         IF raises /\ daemon[p].client # 0 /\ daemon[p].tg /\ daemon[p].connected
         THEN /\ daemon' = [daemon EXCEPT ![p] = Exited(@, "shutdown_error")]
              /\ listener' = FreePort(p)
         ELSE /\ daemon' = [daemon EXCEPT ![p] =
                   [(IF @.client # 0 THEN UserClient_disconnect(@) ELSE @)
                      EXCEPT !.pc = "unlink"]]
              /\ listener' = listener
    /\ UNCHANGED <<configured, authorized, record, loginpc, cli, req, chat, call>>

\* daemon.py 345
shutdown_unlink(p) ==
    /\ daemon[p].pc = "unlink"
    /\ record' = Absent
    /\ daemon' = [daemon EXCEPT ![p].pc = "cleanup"]
    /\ UNCHANGED <<configured, authorized, listener, loginpc, cli, req, chat, call>>

\* daemon.py 375: runner.cleanup() closes the listener; the process then ends.
runner_cleanup(p) ==
    /\ daemon[p].pc = "cleanup"
    /\ listener' = FreePort(p)
    /\ daemon' = [daemon EXCEPT ![p] = Exited(@, "stopped")]
    /\ UNCHANGED <<configured, authorized, record, loginpc, cli, req, chat, call>>

\* ================================================================== do_login
\* daemon.py 396-435: credentials are entered and saved, then
\* TelegramClient(session path) opens the Session file and connects.
do_login_open ==
    /\ loginpc = "idle"
    /\ configured' = TRUE
    /\ loginpc' = "check"
    /\ UNCHANGED <<authorized, record, listener, daemon, cli, req, chat, call>>

\* daemon.py 437-449
do_login_check ==
    /\ loginpc = "check"
    /\ loginpc' = IF authorized THEN "idle" ELSE "code"
    /\ UNCHANGED <<configured, authorized, record, listener, daemon, cli, req, chat, call>>

\* daemon.py 452-469: sign_in; a wrong code raises and ends the login process.
do_login_sign_in ==
    /\ loginpc = "code"
    /\ \E accepted \in BOOLEAN : authorized' = accepted
    /\ loginpc' = "idle"
    /\ UNCHANGED <<configured, record, listener, daemon, cli, req, chat, call>>

\* The login process has the Session file open from TelegramClient() to disconnect().
LoginHoldsSession == loginpc \in {"check", "code"}

\* ============================================================ control server
\* The POST routes of create_app (daemon.py 286-300).
Ops == {"send_message", "send_file", "get_messages", "search_dialogs",
        "download_media", "edit_message", "delete_messages"}

\* The body keys a handler reads without a usable default (data.get(key) or
\* data.get(key, "")); a body is modelled by the set of those keys it carries
\* with a non-empty value.
BodyFields(op) ==
    CASE op = "send_message"    -> {"entity", "message"}
      [] op = "send_file"       -> {"entity", "file_path"}
      [] op = "get_messages"    -> {"entity"}
      [] op = "download_media"  -> {"entity", "message_id", "save_path"}
      [] op = "edit_message"    -> {"entity", "message_id", "text"}
      [] op = "delete_messages" -> {"entity", "message_ids"}
      [] OTHER                  -> {}

\* The keys each handler tests with "if not ...": handle_send_message tests
\* only entity (line 102); message defaults to "" and is passed on untested.
Required(op) ==
    CASE op = "send_message"    -> {"entity"}
      [] op = "send_file"       -> {"entity", "file_path"}
      [] op = "get_messages"    -> {"entity"}
      [] op = "download_media"  -> {"entity", "message_id", "save_path"}
      [] op = "edit_message"    -> {"entity", "message_id", "text"}
      [] op = "delete_messages" -> {"entity", "message_ids"}
      [] OTHER                  -> {}

\* The "error" text of each handler's 400 response.
ValidationError(op) ==
    CASE op = "send_message"    -> "entity is required"
      [] op = "send_file"       -> "entity and file_path are required"
      [] op = "get_messages"    -> "entity is required"
      [] op = "download_media"  -> "entity, message_id, and save_path are required"
      [] op = "edit_message"    -> "entity, message_id, and text are required"
      [] op = "delete_messages" -> "entity and message_ids are required"
      [] OTHER                  -> ""

NotAuthorized == "Not authorized. Run 'tg login' first."
FileNotFound == "File not found"

\* web.json_response({"ok": ..., "error": ...})
json_response(ok, error) == [kind |-> "json", ok |-> ok, error |-> error]

handler_except_reraise(e) == [kind |-> "raised", ok |-> FALSE, error |-> e]

\* The "except Exception as e" clause that closes every handler: the exception
\* becomes the envelope {"ok": False, "error": str(e)} with status 500.
handler_except(e) == json_response(FALSE, e)

\* The handler task ends and aiohttp sends its response.
Respond(q, resp) ==
    [q EXCEPT !.pc = "idle", !.d = 0, !.dialing = FALSE, !.resp = resp]

get_client_always_new(d) == UserClient_init(d)

\* get_client (daemon.py 55-63), the part before its first await: the module
\* global is created only when it is still None.
get_client(d) == IF d.client = 0 THEN UserClient_init(d) ELSE d

UserClient_is_authorized_cached(d) == d.me

\* UserClient.is_authorized (client.py 57): is_user_authorized() asks Telegram
\* about the session as it is now.
UserClient_is_authorized(d) == authorized

\* GET /health: a client connects to the listener and aiohttp starts a
\* handler task.
request_arrive(r) ==
    /\ req[r].pc = "idle"
    /\ listener # 0
    /\ daemon[listener].pc = "serving"
    /\ req' = [req EXCEPT ![r] =
                [IdleReq EXCEPT !.pc = "get_client", !.d = listener, !.op = "health"]]
    /\ UNCHANGED <<configured, authorized, record, listener, daemon, loginpc, cli, chat, call>>

\* POST /<op>: the body is valid JSON or not, carries some of the keys, and
\* for send_file the path names a file that exists or not.
request_post(r) ==
    /\ req[r].pc = "idle"
    /\ listener # 0
    /\ daemon[listener].pc = "serving"
    /\ \E op \in Ops, json \in BOOLEAN, file \in BOOLEAN :
       \E body \in SUBSET BodyFields(op) :
         /\ ~json => body = {}
         /\ file => op = "send_file" /\ "file_path" \in body
         /\ req' = [req EXCEPT ![r] =
                [IdleReq EXCEPT !.pc = "validate", !.d = listener, !.op = op,
                                !.json = json, !.body = body, !.file = file]]
    /\ UNCHANGED <<configured, authorized, record, listener, daemon, loginpc, cli, chat, call>>

\* The head of every POST handler, up to its "client = await get_client()":
\* request.json(), the required-field test and, in handle_send_file, the
\* Path(file_path).exists() test.
handler_validate(r) ==
    /\ req[r].pc = "validate"
    /\ LET q == req[r]
       IN  req' = [req EXCEPT ![r] =
                IF ~q.json THEN Respond(q, handler_except("JSONDecodeError"))
                ELSE IF ~(Required(q.op) \subseteq q.body)
                     THEN Respond(q, json_response(FALSE, ValidationError(q.op)))
                ELSE IF q.op = "send_file" /\ ~q.file
                     THEN Respond(q, json_response(FALSE, FileNotFound))
                ELSE [q EXCEPT !.pc = "get_client"]]
    /\ UNCHANGED <<configured, authorized, record, listener, daemon, loginpc, cli, chat, call>>

\* get_client 57-63
handler_get_client(r) ==
    /\ req[r].pc = "get_client"
    /\ LET d == get_client(daemon[req[r].d])
       IN  /\ daemon' = [daemon EXCEPT ![req[r].d] = d]
           /\ req' = [req EXCEPT ![r].pc = "is_authorized", ![r].client = d.client]
    /\ UNCHANGED <<configured, authorized, record, listener, loginpc, cli, chat, call>>

UserClient_connect_invoke_connected(r) ==
    /\ req[r].pc \in {"is_authorized", "get_me", "call"}
    /\ ~req[r].dialing
    /\ daemon' = [daemon EXCEPT ![req[r].d] = UserClient_client(@)]
    /\ req' = [req EXCEPT ![r].dialing = TRUE, ![r].connects = @ + 1]
    /\ UNCHANGED <<configured, authorized, record, listener, loginpc, cli, chat, call>>

\* UserClient.connect (client.py 44-47) at the head of is_authorized, get_me
\* and every operation: is_connected() is tested and, when it is false,
\* client.connect() is invoked in the same step; the handler is then suspended
\* inside connect() until the handler's next step completes it.
UserClient_connect_invoke(r) ==
    /\ req[r].pc \in {"is_authorized", "get_me", "call"}
    /\ ~req[r].dialing
    /\ ~daemon[req[r].d].connected
    /\ daemon' = [daemon EXCEPT ![req[r].d] = UserClient_client(@)]
    /\ req' = [req EXCEPT ![r].dialing = TRUE, ![r].connects = @ + 1]
    /\ UNCHANGED <<configured, authorized, record, listener, loginpc, cli, chat, call>>

handler_is_authorized_no_raise(r) ==
    /\ req[r].pc = "is_authorized"
    /\ daemon[req[r].d].connected \/ req[r].dialing
    /\ \E net \in BOOLEAN :
         LET d == daemon[req[r].d]
             q == [req[r] EXCEPT !.dialing = FALSE]
         IN  /\ daemon' = [daemon EXCEPT ![req[r].d] = UserClient_connect(d, net)]
             /\ req' = [req EXCEPT ![r] =
                    IF ~net THEN Respond(q, handler_except("ConnectionError"))
                    ELSE [q EXCEPT !.authz = IF authorized THEN "yes" ELSE "no",
                                   !.pc = IF q.op = "health" THEN "get_me" ELSE "call"]]
    /\ UNCHANGED <<configured, authorized, record, listener, loginpc, cli, chat, call>>

\* get_client 65-68 with UserClient.is_authorized (client.py 54-57): connect
\* if not connected, ask whether the session is authorized, raise
\* RuntimeError when it is not.  authz remembers what the session was when
\* it was asked.
handler_is_authorized(r) ==
    /\ req[r].pc = "is_authorized"
    /\ daemon[req[r].d].connected \/ req[r].dialing
    /\ \E net \in BOOLEAN :
         LET d == daemon[req[r].d]
             q == [req[r] EXCEPT !.dialing = FALSE]
             a == [q EXCEPT !.authz = IF authorized THEN "yes" ELSE "no"]
         IN  /\ daemon' = [daemon EXCEPT ![req[r].d] = UserClient_connect(d, net)]
             /\ req' = [req EXCEPT ![r] =
                    IF ~net THEN Respond(q, handler_except("ConnectionError"))
                    ELSE IF ~UserClient_is_authorized(d)
                         THEN Respond(a, handler_except(NotAuthorized))
                    ELSE [a EXCEPT !.pc = IF q.op = "health" THEN "get_me" ELSE "call"]]
    /\ UNCHANGED <<configured, authorized, record, listener, loginpc, cli, chat, call>>

\* handle_health 80-91 / UserClient.get_me (client.py 59-71)
handler_get_me(r) ==
    /\ req[r].pc = "get_me"
    /\ daemon[req[r].d].connected \/ req[r].dialing
    /\ \E net \in BOOLEAN :
         LET d == daemon[req[r].d]
             q == [req[r] EXCEPT !.dialing = FALSE,
                                 !.calls = @ + (IF d.connected \/ net THEN 1 ELSE 0)]
         IN  /\ daemon' = [daemon EXCEPT ![req[r].d] = UserClient_connect(d, net)]
             /\ req' = [req EXCEPT ![r] =
                    Respond(q, IF net THEN json_response(TRUE, "")
                               ELSE handler_except("ConnectionError"))]
    /\ UNCHANGED <<configured, authorized, record, listener, loginpc, cli, chat, call>>

handler_backend_op_retry(r) ==
    /\ req[r].pc = "call"
    /\ daemon[req[r].d].connected \/ req[r].dialing
    /\ \E conn \in BOOLEAN, net \in BOOLEAN :
         LET d == daemon[req[r].d]
             q == [req[r] EXCEPT !.dialing = FALSE]
         IN  /\ daemon' = [daemon EXCEPT ![req[r].d] = UserClient_connect(d, conn)]
             /\ req' = [req EXCEPT ![r] =
                    IF ~d.connected /\ ~conn
                    THEN Respond(q, handler_except("ConnectionError"))
                    ELSE IF q.op = "send_file" /\ ~q.file
                         THEN Respond(q, handler_except(FileNotFound))
                    ELSE IF net
                         THEN Respond([q EXCEPT !.calls = @ + 1], json_response(TRUE, ""))
                    ELSE Respond([q EXCEPT !.calls = @ + 2], json_response(TRUE, ""))]
    /\ UNCHANGED <<configured, authorized, record, listener, loginpc, cli, chat, call>>

\* The tail of every POST handler: "result = await client.<op>(...)" and the
\* response.  Every UserClient operation begins with "await self.connect()";
\* send_file then tests path.exists() (client.py 118-121) before the upload.
handler_backend_op(r) ==
    /\ req[r].pc = "call"
    /\ daemon[req[r].d].connected \/ req[r].dialing
    /\ \E conn \in BOOLEAN, net \in BOOLEAN :
         LET d == daemon[req[r].d]
             q == [req[r] EXCEPT !.dialing = FALSE]
         IN  /\ daemon' = [daemon EXCEPT ![req[r].d] = UserClient_connect(d, conn)]
             /\ req' = [req EXCEPT ![r] =
                    IF ~d.connected /\ ~conn
                    THEN Respond(q, handler_except("ConnectionError"))
                    ELSE IF q.op = "send_file" /\ ~q.file
                         THEN Respond(q, handler_except(FileNotFound))
                    ELSE Respond([q EXCEPT !.calls = @ + 1],
                                 IF net THEN json_response(TRUE, "")
                                 ELSE handler_except("RPCError"))]
    /\ UNCHANGED <<configured, authorized, record, listener, loginpc, cli, chat, call>>

\* ------------------------------------------------- the handlers' environment
\* The session is terminated from another device: is_user_authorized() turns
\* false under a running daemon.
session_revoked ==
    /\ authorized
    /\ authorized' = FALSE
    /\ UNCHANGED <<configured, record, listener, daemon, loginpc, cli, req, chat, call>>

\* The transport to Telegram drops: is_connected() turns false.
connection_lost(p) ==
    /\ daemon[p].pc = "serving"
    /\ daemon[p].connected
    /\ daemon' = [daemon EXCEPT ![p].connected = FALSE]
    /\ UNCHANGED <<configured, authorized, record, listener, loginpc, cli, req, chat, call>>

\* The file a send_file request names is removed while the request is handled.
file_removed(r) ==
    /\ req[r].pc \in {"get_client", "is_authorized", "call"}
    /\ req[r].file
    /\ req' = [req EXCEPT ![r].file = FALSE]
    /\ UNCHANGED <<configured, authorized, record, listener, daemon, loginpc, cli, chat, call>>

\* ============================================== UserClient: the conversation
MsgIds == 1..MaxMsgs

\* Python's None, for a message without text.
None == "None"

\* msg.media: its class (none for None, photo for MessageMediaPhoto, document
\* for MessageMediaDocument, geo for any other class), whether media.document
\* is set, and the document's attributes in their order.
Media(type, document, attributes) ==
    [type |-> type, document |-> document, attributes |-> attributes]

NoMedia == Media("none", FALSE, <<>>)
Photo == Media("photo", FALSE, <<>>)

\* DocumentAttributeFilename, DocumentAttributeAudio with its voice flag, and
\* DocumentAttributeVideo for every other attribute class.
Attributes ==
    [attr : {"filename"}, file_name : {"a.ogg", "a.pdf"}, voice : {FALSE}]
      \cup [attr : {"audio"}, file_name : {None}, voice : BOOLEAN]
      \cup [attr : {"video"}, file_name : {None}, voice : {FALSE}]

\* A document carries at most one attribute of each class, in any order.
AttributeLists ==
    {<<>>} \cup {<<a>> : a \in Attributes}
      \cup {l \in {<<a, b>> : a, b \in Attributes} : l[1].attr # l[2].attr}

\* Every msg.media: none, a photo, a document (unset, or set with its
\* attributes) and a media of another class.
Medias ==
    {NoMedia, Photo, Media("document", FALSE, <<>>), Media("geo", FALSE, <<>>)}
      \cup {Media("document", TRUE, l) : l \in AttributeLists}

\* What iter_messages yields, its id aside: a patched.MessageService, a
\* patched.MessageEmpty or a message with its text (None for media without
\* caption) and its media.
RawItems(texts) ==
    [kind : {"service", "empty"}, text : {None}, media : {NoMedia}]
      \cup [kind : {"message"}, text : texts, media : {NoMedia, Photo}]

\* An id the conversation does not hold.
NoItem == [kind |-> "absent", text |-> None, media |-> NoMedia]

\* The backend keeps a conversation newest first; ids grow with time.
RECURSIVE conversation(_, _)
conversation(slots, id) ==
    IF id = 0 THEN <<>>
    ELSE (IF slots[id] = NoItem THEN <<>>
          ELSE <<[id |-> id, kind |-> slots[id].kind, text |-> slots[id].text,
                  media |-> slots[id].media]>>)
         \o conversation(slots, id - 1)

Conversations ==
    {conversation(slots, MaxMsgs) :
        slots \in [MsgIds -> RawItems({None, "old"}) \cup {NoItem}]}

\* client.iter_messages(entity, limit=limit): the newest limit items.
iter_messages(limit) ==
    SubSeq(chat, 1, IF limit < Len(chat) THEN limit ELSE Len(chat))

\* A classification that looks at the file's extension.
RECURSIVE attributes_media_type_by_name(_, _)
attributes_media_type_by_name(attributes, type) ==
    IF attributes = <<>> THEN type
    ELSE LET attr == Head(attributes)
         IN  attributes_media_type_by_name(Tail(attributes),
                 IF attr.attr = "audio" THEN (IF attr.voice THEN "voice" ELSE "audio")
                 ELSE IF attr.attr = "filename" /\ attr.file_name = "a.ogg" THEN "voice"
                 ELSE type)

\* client.py 170-178: the loop over document.attributes; an audio attribute
\* sets the type to voice or audio by its voice flag, a filename attribute
\* only gives the file name, every other attribute is passed over.
RECURSIVE attributes_media_type(_, _)
attributes_media_type(attributes, type) ==
    IF attributes = <<>> THEN type
    ELSE LET attr == Head(attributes)
         IN  attributes_media_type(Tail(attributes),
                 IF attr.attr = "audio" THEN (IF attr.voice THEN "voice" ELSE "audio")
                 ELSE type)

\* client.py 172-173: msg_data["file_name"], None when the key is not set.
RECURSIVE attributes_file_name(_, _)
attributes_file_name(attributes, name) ==
    IF attributes = <<>> THEN name
    ELSE attributes_file_name(Tail(attributes),
             IF Head(attributes).attr = "filename" THEN Head(attributes).file_name
             ELSE name)

\* client.py 162-180: msg_data["media_type"], None when the key is not set.
media_type(media) ==
    IF media = NoMedia THEN None
    ELSE IF media.type = "photo" THEN "photo"
    ELSE IF media.type = "document"
         THEN (IF media.document THEN attributes_media_type(media.attributes, "document")
               ELSE "document")
    ELSE "other"

msg_data_no_text(msg) ==
    [id |-> msg.id, text |-> "", has_media |-> msg.media # NoMedia,
     media_type |-> media_type(msg.media),
     file_name |-> attributes_file_name(msg.media.attributes, None)]

\* client.py 155-180: the dict built for one message.
msg_data(msg) ==
    [id |-> msg.id,
     text |-> IF msg.text = None THEN "" ELSE msg.text,
     has_media |-> msg.media # NoMedia,
     media_type |-> media_type(msg.media),
     file_name |-> attributes_file_name(msg.media.attributes, None)]

\* The loop without its "continue".
RECURSIVE get_messages_keep_all(_, _)
get_messages_keep_all(raw, messages) ==
    IF raw = <<>> THEN messages
    ELSE get_messages_keep_all(Tail(raw), Append(messages, msg_data(Head(raw))))

\* client.py 149-184: the loop over the stream; service and empty items are
\* skipped with "continue", every other item is appended.
RECURSIVE get_messages(_, _)
get_messages(raw, messages) ==
    IF raw = <<>> THEN messages
    ELSE IF Head(raw).kind \in {"service", "empty"}
         THEN get_messages(Tail(raw), messages)
         ELSE get_messages(Tail(raw), Append(messages, msg_data(Head(raw))))

\* UserClient.get_messages(entity, limit) (client.py 134-184); raises: the
\* backend call fails.
UserClient_get_messages ==
    /\ \E limit \in 0..MaxMsgs, raises \in BOOLEAN :
         call' = IF raises
                 THEN [op |-> "get_messages", limit |-> limit, ok |-> FALSE]
                 ELSE [op |-> "get_messages", limit |-> limit, ok |-> TRUE,
                       result |-> get_messages(iter_messages(limit), <<>>)]
    /\ UNCHANGED <<configured, authorized, record, listener, daemon, loginpc, cli, req, chat>>

\* The lists of message ids a caller passes: empty, repeated and absent ids
\* included.
IdLists == {<<>>} \cup {<<i>> : i \in MsgIds} \cup {<<i, j>> : i, j \in MsgIds}

\* client.delete_messages(entity, message_ids) at the backend: the listed
\* messages that exist are removed, the other ids are ignored.
backend_delete(message_ids) ==
    SelectSeq(chat, LAMBDA m : \A k \in DOMAIN message_ids : message_ids[k] # m.id)

delete_messages_result_affected(message_ids, affected) ==
    [deleted |-> affected]

\* client.py 305-306: the backend's result is bound and not read; the count is
\* the length of the argument.
delete_messages_result(message_ids, affected) ==
    [deleted |-> Len(message_ids)]

\* UserClient.delete_messages(entity, message_ids) (client.py 290-306);
\* raises: the backend call fails.
UserClient_delete_messages ==
    /\ \E message_ids \in IdLists, raises \in BOOLEAN :
         LET after == backend_delete(message_ids)
             affected == Len(chat) - Len(after)
         IN  IF raises
             THEN /\ call' = [op |-> "delete_messages", message_ids |-> message_ids,
                              ok |-> FALSE]
                  /\ chat' = chat
             ELSE /\ call' = [op |-> "delete_messages", message_ids |-> message_ids,
                              ok |-> TRUE, affected |-> affected,
                              result |-> delete_messages_result(message_ids, affected)]
                  /\ chat' = after
    /\ UNCHANGED <<configured, authorized, record, listener, daemon, loginpc, cli, req>>

\* The bodies a caller passes to edit_message.
EditTexts == {"old", "new"}

\* client.edit_message(entity, message_id, text) at the backend: the message
\* keeps its id and its place and takes the new body.
backend_edit(message_id, text) ==
    [i \in DOMAIN chat |->
        IF chat[i].id = message_id THEN [chat[i] EXCEPT !.text = text] ELSE chat[i]]

\* The backend refuses to edit an id that is absent, a service or empty item,
\* or a message whose body is already the one given.
backend_can_edit(message_id, text) ==
    \E i \in DOMAIN chat :
        /\ chat[i].id = message_id
        /\ chat[i].kind = "message"
        /\ chat[i].text # text

\* UserClient.edit_message(entity, message_id, text) (client.py 270-288): the
\* backend call, then the dict with the message_id argument; raises: the backend
\* call fails for another reason.
UserClient_edit_message ==
    /\ \E message_id \in MsgIds, text \in EditTexts, raises \in BOOLEAN :
         IF ~raises /\ backend_can_edit(message_id, text)
         THEN /\ chat' = backend_edit(message_id, text)
              /\ call' = [op |-> "edit_message", message_id |-> message_id,
                          text |-> text, ok |-> TRUE,
                          result |-> [message_id |-> message_id]]
         ELSE /\ chat' = chat
              /\ call' = [op |-> "edit_message", message_id |-> message_id,
                          text |-> text, ok |-> FALSE]
    /\ UNCHANGED <<configured, authorized, record, listener, daemon, loginpc, cli, req>>

\* client.get_messages(entity, ids=message_id): the message, or nothing for an
\* absent id and for an empty item.
get_messages_ids(message_id) ==
    {i \in DOMAIN chat : chat[i].id = message_id /\ chat[i].kind # "empty"}

download_media_no_media_check(message_id, downloaded) ==
    IF get_messages_ids(message_id) = {}
    THEN [ok |-> FALSE, error |-> "Message not found", attempted |-> FALSE,
          written |-> FALSE]
    ELSE IF downloaded
         THEN [ok |-> TRUE, error |-> "", attempted |-> TRUE, written |-> TRUE]
         ELSE [ok |-> FALSE, error |-> "Failed to download media",
               attempted |-> TRUE, written |-> FALSE]

\* client.py 254-268: the lookup, the two ValueErrors, then
\* message.download_media(file=save_path); downloaded: whether the backend
\* produced the file.
download_media(message_id, downloaded) ==
    LET found == get_messages_ids(message_id)
    IN  IF found = {}
        THEN [ok |-> FALSE, error |-> "Message not found", attempted |-> FALSE,
              written |-> FALSE]
        ELSE IF \A i \in found : chat[i].media = NoMedia
        THEN [ok |-> FALSE, error |-> "Message has no media", attempted |-> FALSE,
              written |-> FALSE]
        ELSE IF downloaded
        THEN [ok |-> TRUE, error |-> "", attempted |-> TRUE, written |-> TRUE]
        ELSE [ok |-> FALSE, error |-> "Failed to download media",
              attempted |-> TRUE, written |-> FALSE]

\* UserClient.download_media(entity, message_id, save_path) (client.py 237-268).
UserClient_download_media ==
    /\ \E message_id \in MsgIds, downloaded \in BOOLEAN :
         call' = [op |-> "download_media", message_id |-> message_id,
                  out |-> download_media(message_id, downloaded)]
    /\ UNCHANGED <<configured, authorized, record, listener, daemon, loginpc, cli, req, chat>>

\* =================================================== UserClient: the dialogs
\* Strings are sequences of characters, so that lower() and "in" are computed;
\* NoName stands for a dialog whose name is None.
NoName == <<"None">>
DialogNames == {NoName, <<"A", "b">>, <<"b", "a">>, <<"c">>}
Usernames == {<<"a", "b">>, <<"c">>}
Queries == {<<>>, <<"a">>, <<"A", "B">>, <<"c">>}

\* The backend's dialog stream, most recently active first; the id of a dialog
\* is its place in the stream.
DialogStreams ==
    UNION {{[i \in 1..n |->
                [id |-> i, name |-> f[i].name, username |-> f[i].username]] :
              f \in [1..n -> [name : DialogNames, username : Usernames]]} :
           n \in 0..MaxDialogs}

\* str.lower()
lower(str) ==
    [i \in DOMAIN str |->
        CASE str[i] = "A" -> "a" [] str[i] = "B" -> "b" [] OTHER -> str[i]]

\* "sub in str" for Python strings
contains(str, sub) ==
    \E i \in 1..(Len(str) + 1) :
        /\ i + Len(sub) - 1 <= Len(str)
        /\ SubSeq(str, i, i + Len(sub) - 1) = sub

iter_dialogs_all(stream, limit) == stream

\* client.iter_dialogs(limit=limit): the first limit dialogs.
iter_dialogs(stream, limit) ==
    SubSeq(stream, 1, IF limit < Len(stream) THEN limit ELSE Len(stream))

\* The loop with the handle compared as well.
RECURSIVE search_dialogs_match_username(_, _, _, _)
search_dialogs_match_username(raw, query, limit, dialogs) ==
    IF raw = <<>> THEN dialogs
    ELSE LET dialog == Head(raw)
         IN  IF query # <<>> /\ ~contains(lower(dialog.username), lower(query))
             THEN search_dialogs_match_username(Tail(raw), query, limit, dialogs)
             ELSE IF Len(dialogs) + 1 >= limit THEN Append(dialogs, dialog)
             ELSE search_dialogs_match_username(Tail(raw), query, limit,
                                                Append(dialogs, dialog))

\* client.py 203-235: the loop over the stream.  With a query, a dialog whose
\* lowered name (dialog.name or "") does not contain the lowered query is
\* skipped; a kept dialog is appended and the loop breaks at limit entries.
RECURSIVE search_dialogs(_, _, _, _)
search_dialogs(raw, query, limit, dialogs) ==
    IF raw = <<>> THEN dialogs
    ELSE LET dialog == Head(raw)
             name_lower == lower(IF dialog.name = NoName THEN <<>> ELSE dialog.name)
         IN  IF query # <<>> /\ ~contains(name_lower, lower(query))
             THEN search_dialogs(Tail(raw), query, limit, dialogs)
             ELSE IF Len(dialogs) + 1 >= limit THEN Append(dialogs, dialog)
             ELSE search_dialogs(Tail(raw), query, limit, Append(dialogs, dialog))

\* UserClient.search_dialogs(query, limit) (client.py 186-235), called with
\* the arguments held in call against a backend holding call.stream.
UserClient_search_dialogs ==
    /\ call.op = "search_dialogs" /\ call.pc = "called"
    /\ call' = [call EXCEPT !.pc = "returned",
                  !.result = search_dialogs(iter_dialogs(call.stream, call.limit),
                                            call.query, call.limit, <<>>)]
    /\ UNCHANGED <<configured, authorized, record, listener, daemon, loginpc, cli, req, chat>>

\* ======================================================================= CLI
\* daemon_request("health") as seen by the caller (cli.py 79-98) together with
\* what handle_health (daemon.py 76-91) does in the daemon that answers: ok is
\* the "ok" field of the reply, False when the connection is refused.
daemon_request_health(ok) ==
    IF listener # 0 /\ daemon[listener].pc = "serving"
    THEN \E net \in BOOLEAN :
           /\ ok = (net /\ authorized)
           /\ daemon' = [daemon EXCEPT ![listener] =
                           UserClient_connect(get_client(@), net)]
    ELSE /\ ok = FALSE
         /\ daemon' = daemon

\* cli.py 101-104
is_daemon_running(ok) == daemon_request_health(ok)

\* cli.py 301-303: the outcome of daemon_start's first probe.
StartProbed(c, ok) ==
    [c EXCEPT !.live = KillSucceeds(record),
              !.pc = IF ok THEN "done" ELSE "load_config",
              !.report = IF ok THEN "already_running" ELSE ""]

\* cli.py 301-303: `tg daemon start`, the first probe.
cli_daemon_start ==
    /\ cli.pc = "done"
    /\ \E ok \in BOOLEAN :
         /\ is_daemon_running(ok)
         /\ cli' = StartProbed([IdleCli EXCEPT !.cmd = "start"], ok)
    /\ UNCHANGED <<configured, authorized, record, listener, loginpc, req, chat, call>>

\* cli.py 422-424: daemon_stop has returned; after time.sleep(1) daemon_start
\* makes its first probe.
daemon_restart_settle ==
    /\ cli.cmd = "restart" /\ cli.pc = "settle"
    /\ \E ok \in BOOLEAN :
         /\ is_daemon_running(ok)
         /\ cli' = StartProbed(cli, ok)
    /\ UNCHANGED <<configured, authorized, record, listener, loginpc, req, chat, call>>

\* cli.py 305-308
cli_daemon_start_load_config ==
    /\ cli.cmd \in {"start", "restart"} /\ cli.pc = "load_config"
    /\ cli' = IF configured THEN [cli EXCEPT !.pc = "spawn"]
              ELSE [cli EXCEPT !.pc = "done", !.report = "not_configured"]
    /\ UNCHANGED <<configured, authorized, record, listener, daemon, loginpc, req, chat, call>>

\* cli.py 322-327: subprocess.Popen([python, "-m", "mcp_telegram.daemon", "start"])
cli_daemon_start_spawn ==
    /\ cli.cmd \in {"start", "restart"} /\ cli.pc = "spawn"
    /\ \E p \in Procs :
         /\ daemon[p].pc = "none"
         /\ \A q \in Procs : q < p => daemon[q].pc # "none"
         /\ daemon' = [daemon EXCEPT ![p].pc = "load_config"]
         /\ cli' = [cli EXCEPT !.pc = "poll", !.child = p, !.n = 0]
    /\ UNCHANGED <<configured, authorized, record, listener, loginpc, req, chat, call>>

cli_daemon_start_poll_unbounded ==
    /\ cli.cmd \in {"start", "restart"} /\ cli.pc = "poll"
    /\ \E ok \in BOOLEAN :
         /\ is_daemon_running(ok)
         /\ cli' = IF ok THEN [cli EXCEPT !.pc = "done", !.n = 0, !.report = "started"]
                   ELSE [cli EXCEPT !.n = 0]
    /\ UNCHANGED <<configured, authorized, record, listener, loginpc, req, chat, call>>

\* cli.py 331-343: up to StartPolls probes, half a second apart.
cli_daemon_start_poll ==
    /\ cli.cmd \in {"start", "restart"} /\ cli.pc = "poll"
    /\ \E ok \in BOOLEAN :
         /\ is_daemon_running(ok)
         /\ cli' = IF ok THEN [cli EXCEPT !.pc = "done", !.n = 0, !.report = "started"]
                   ELSE IF cli.n + 1 < StartPolls THEN [cli EXCEPT !.n = @ + 1]
                   ELSE [cli EXCEPT !.pc = "done", !.n = 0, !.report = "failed"]
    /\ UNCHANGED <<configured, authorized, record, listener, loginpc, req, chat, call>>

\* cli.py 349-353 (`tg daemon stop`) and daemon.py 479-483
\* (`python -m mcp_telegram.daemon stop`): pid_path.exists()
stop_exists(cmd) ==
    /\ cli.pc = "done"
    /\ cli' = IF record = Absent
              THEN StopReturns([IdleCli EXCEPT !.cmd = cmd], "not_running")
              ELSE [IdleCli EXCEPT !.cmd = cmd, !.pc = "kill"]
    /\ UNCHANGED <<configured, authorized, record, listener, daemon, loginpc, req, chat, call>>

stop_kill_unlinks_live ==
    /\ cli.cmd \in {"stop", "dstop", "restart"} /\ cli.pc = "kill"
    /\ IF KillSucceeds(record)
       THEN /\ daemon' = [daemon EXCEPT ![record].sig = TRUE]
            /\ record' = Absent
            /\ cli' = IF cli.cmd = "dstop"
                      THEN [cli EXCEPT !.pc = "done", !.pid = record,
                                       !.report = "sigterm_sent"]
                      ELSE [cli EXCEPT !.pc = "wait", !.pid = record, !.n = 0]
       ELSE /\ daemon' = daemon
            /\ record' = Absent
            /\ cli' = StopReturns([cli EXCEPT !.stale = (record \in Procs)], "failed")
    /\ UNCHANGED <<configured, authorized, listener, loginpc, req, chat, call>>

\* cli.py 355-358, 370-372 and daemon.py 485-491: read the pid, send SIGTERM;
\* ValueError and OSError are reported as a failure and the PID file is removed.
stop_kill ==
    /\ cli.cmd \in {"stop", "dstop", "restart"} /\ cli.pc = "kill"
    /\ IF KillSucceeds(record)
       THEN /\ daemon' = [daemon EXCEPT ![record].sig = TRUE]
            /\ record' = record
            /\ cli' = IF cli.cmd = "dstop"
                      THEN [cli EXCEPT !.pc = "done", !.pid = record,
                                       !.report = "sigterm_sent"]
                      ELSE [cli EXCEPT !.pc = "wait", !.pid = record, !.n = 0]
       ELSE /\ daemon' = daemon
            /\ record' = Absent
            /\ cli' = StopReturns([cli EXCEPT !.stale = (record \in Procs)], "failed")
    /\ UNCHANGED <<configured, authorized, listener, loginpc, req, chat, call>>

cli_daemon_stop_wait_timeout_fails ==
    /\ cli.cmd = "stop" /\ cli.pc = "wait"
    /\ cli' = IF ~Alive(cli.pid)
              THEN [cli EXCEPT !.pc = "done", !.n = 0, !.report = "stopped"]
              ELSE IF cli.n + 1 < StopPolls THEN [cli EXCEPT !.n = @ + 1]
              ELSE [cli EXCEPT !.pc = "done", !.n = 0, !.report = "failed"]
    /\ record' = IF Alive(cli.pid) /\ cli.n + 1 >= StopPolls THEN Absent ELSE record
    /\ UNCHANGED <<configured, authorized, listener, daemon, loginpc, req, chat, call>>

\* cli.py 361-369: up to StopPolls liveness probes, half a second apart.
cli_daemon_stop_wait ==
    /\ cli.cmd \in {"stop", "restart"} /\ cli.pc = "wait"
    /\ cli' = IF ~Alive(cli.pid) THEN StopReturns(cli, "stopped")
              ELSE IF cli.n + 1 < StopPolls THEN [cli EXCEPT !.n = @ + 1]
              ELSE StopReturns(cli, "timeout")
    /\ UNCHANGED <<configured, authorized, record, listener, daemon, loginpc, req, chat, call>>

\* cli.py 378-390 (`tg daemon status`) and daemon.py 499-511
\* (`python -m mcp_telegram.daemon status`): pid_path.exists()
status_exists(cmd) ==
    /\ cli.pc = "done"
    /\ cli' = IF record = Absent
              THEN [IdleCli EXCEPT !.cmd = cmd, !.report = "not_running"]
              ELSE [IdleCli EXCEPT !.cmd = cmd, !.pc = "kill"]
    /\ UNCHANGED <<configured, authorized, record, listener, daemon, loginpc, req, chat, call>>

status_kill_unlinks_stale ==
    /\ cli.cmd \in {"status", "dstatus"} /\ cli.pc = "kill"
    /\ cli' = IF KillSucceeds(record)
              THEN [cli EXCEPT !.pc = "health", !.pid = record, !.live = TRUE]
              ELSE [cli EXCEPT !.pc = "done", !.report = "stale",
                               !.stale = (record \in Procs)]
    /\ record' = IF KillSucceeds(record) THEN record ELSE Absent
    /\ UNCHANGED <<configured, authorized, listener, daemon, loginpc, req, chat, call>>

status_kill_no_stale ==
    /\ cli.cmd \in {"status", "dstatus"} /\ cli.pc = "kill"
    /\ cli' = IF KillSucceeds(record)
              THEN [cli EXCEPT !.pc = "health", !.pid = record, !.live = TRUE]
              ELSE [cli EXCEPT !.pc = "done", !.report = "not_running"]
    /\ UNCHANGED <<configured, authorized, record, listener, daemon, loginpc, req, chat, call>>

\* cli.py 381-387 and daemon.py 503-509: read the pid and probe it with
\* os.kill(pid, 0); a file that is gone by now, a content that does not parse
\* and a pid that names no process all raise OSError or ValueError.
status_kill ==
    /\ cli.cmd \in {"status", "dstatus"} /\ cli.pc = "kill"
    /\ cli' = IF KillSucceeds(record)
              THEN [cli EXCEPT !.pc = "health", !.pid = record, !.live = TRUE]
              ELSE [cli EXCEPT !.pc = "done", !.report = "stale",
                               !.stale = (record \in Procs)]
    /\ UNCHANGED <<configured, authorized, record, listener, daemon, loginpc, req, chat, call>>

\* cli.py 392-398 and daemon.py 513-524: the health request; a reply without
\* ok and a failure to reach the daemon are both reported as unhealthy.
status_health ==
    /\ cli.cmd \in {"status", "dstatus"} /\ cli.pc = "health"
    /\ \E ok \in BOOLEAN :
         /\ daemon_request_health(ok)
         /\ cli' = [cli EXCEPT !.pc = "done",
                       !.report = IF ok THEN "running_healthy"
                                  ELSE "running_unhealthy"]
    /\ UNCHANGED <<configured, authorized, record, listener, loginpc, req, chat, call>>

\* ======================================================= the daemon's clients
\* The endpoints the "tg user" commands post to (cli.py 439-577) and the ones
\* the user_* tools of the MCP server post to (server.py 377-468).
CliEndpoints == {"send_message", "send_file", "get_messages", "search_dialogs",
                 "download_media"}
McpEndpoints == Ops

\* The timeout each "tg user" command passes to daemon_request: only
\* user_download passes one (cli.py 577), the others take the default.
cli_timeout(endpoint) ==
    IF endpoint = "download_media" THEN CliDownloadTimeout ELSE CliDefaultTimeout

\* The timeout each user_* tool passes to daemon_request: only
\* user_download_media passes one (server.py 444).
mcp_timeout(endpoint) ==
    IF endpoint = "download_media" THEN McpDownloadTimeout ELSE McpDefaultTimeout

\* The error text of the CLI's daemon_request for a refused connection
\* (cli.py 96-97).
DaemonNotRunning == "Daemon not running. Start with: tg daemon start"

\* What a request can meet: the connection is refused at once
\* (httpx.ConnectError), no response arrives within the timeout, or the
\* response body is not JSON.
Failures == {"ConnectError", "TimeoutException", "JSONDecodeError"}

\* The JSON object of a response, as far as its "ok" member goes.
Bodies == {"ok_true", "ok_false", "no_ok"}

\* A daemon_request under way: via the CLI or the MCP server, for the command or
\* tool named, to the endpoint, with its timeout and the time waited so far.
\* probe: what check_daemon found in this call; sent: operation requests sent;
\* failure, body: what the request met; ok, error: result.get("ok", False)
\* and result.get("error") of the dict returned.
Request(via, tool, endpoint, timeout) ==
    [op |-> "daemon_request", via |-> via, tool |-> tool, endpoint |-> endpoint,
     timeout |-> timeout, waited |-> 0, pc |-> "waiting", ok |-> FALSE,
     probe |-> "none", sent |-> IF endpoint = "health" THEN 0 ELSE 1,
     failure |-> "none", body |-> "none", error |-> ""]

NoRequestWaiting == call.op = "none" \/ (call.op = "daemon_request" /\ call.pc # "waiting")

\* A "tg user" command (cli.py 430-577): one daemon_request to its endpoint.
cli_user_command ==
    /\ NoRequestWaiting
    /\ \E endpoint \in CliEndpoints :
         call' = Request("cli", endpoint, endpoint, cli_timeout(endpoint))
    /\ UNCHANGED <<configured, authorized, record, listener, daemon, loginpc, cli, req, chat>>

\* is_daemon_running (cli.py 101-104): GET /health with a timeout of 5.0; its
\* return value is the ok of the dict daemon_request returns.
cli_is_daemon_running ==
    /\ NoRequestWaiting
    /\ call' = Request("cli", "is_daemon_running", "health", CliProbeTimeout)
    /\ UNCHANGED <<configured, authorized, record, listener, daemon, loginpc, cli, req, chat>>

\* call_tool for a user_* tool (server.py 370-374): check_daemon first, which
\* requests /health with the default timeout.
call_tool ==
    /\ NoRequestWaiting
    /\ \E tool \in McpEndpoints :
         call' = Request("mcp", tool, "health", McpDefaultTimeout)
    /\ UNCHANGED <<configured, authorized, record, listener, daemon, loginpc, cli, req, chat>>

\* Time passes while the client waits for the response.
time_passes ==
    /\ call.op = "daemon_request" /\ call.pc = "waiting"
    /\ call.waited < call.timeout
    /\ call' = [call EXCEPT !.waited = @ + Tick]
    /\ UNCHANGED <<configured, authorized, record, listener, daemon, loginpc, cli, req, chat>>

check_daemon_response_ignored ==
    /\ call.op = "daemon_request" /\ call.pc = "waiting"
    /\ call.via = "mcp" /\ call.endpoint = "health"
    /\ call.waited < call.timeout
    /\ \E body \in Bodies :
         call' = [Request("mcp", call.tool, call.tool, mcp_timeout(call.tool))
                     EXCEPT !.probe = IF body = "ok_true" THEN "ok" ELSE "failed"]
    /\ UNCHANGED <<configured, authorized, record, listener, daemon, loginpc, cli, req, chat>>

\* check_daemon (server.py 51-59) gets its answer: with ok the tool goes on to
\* its own request (server.py 377-468), else call_tool returns the error text
\* (server.py 372-374).
check_daemon_response ==
    /\ call.op = "daemon_request" /\ call.pc = "waiting"
    /\ call.via = "mcp" /\ call.endpoint = "health"
    /\ call.waited < call.timeout
    /\ \E body \in Bodies :
         call' = IF body = "ok_true"
                 THEN [Request("mcp", call.tool, call.tool, mcp_timeout(call.tool))
                          EXCEPT !.probe = "ok"]
                 ELSE [call EXCEPT !.pc = "returned", !.ok = FALSE, !.body = body,
                                   !.probe = "failed"]
    /\ UNCHANGED <<configured, authorized, record, listener, daemon, loginpc, cli, req, chat>>

\* The daemon's response arrives in time: response.json() is returned
\* (cli.py 95, server.py 47).
daemon_request_response ==
    /\ call.op = "daemon_request" /\ call.pc = "waiting"
    /\ ~(call.via = "mcp" /\ call.endpoint = "health")
    /\ call.waited < call.timeout
    /\ \E body \in Bodies :
         call' = [call EXCEPT !.pc = "returned", !.body = body,
                              !.ok = (body = "ok_true")]
    /\ UNCHANGED <<configured, authorized, record, listener, daemon, loginpc, cli, req, chat>>

daemon_request_raises_uncaught ==
    /\ call.op = "daemon_request" /\ call.pc = "waiting"
    /\ \E failure \in Failures :
         /\ failure = "ConnectError" => call.waited = 0
         /\ failure = "TimeoutException" => call.waited >= call.timeout
         /\ failure = "JSONDecodeError" => call.waited < call.timeout
         /\ call' = IF call.via = "cli" /\ failure = "ConnectError"
                    THEN [call EXCEPT !.pc = "returned", !.ok = FALSE,
                                      !.failure = failure, !.error = DaemonNotRunning]
                    ELSE IF call.via = "mcp" /\ call.endpoint = "health"
                    THEN [call EXCEPT !.pc = "returned", !.ok = FALSE,
                                      !.failure = failure, !.probe = "failed"]
                    ELSE [call EXCEPT !.pc = "raised", !.failure = failure]
    /\ UNCHANGED <<configured, authorized, record, listener, daemon, loginpc, cli, req, chat>>

\* The request fails: httpx raises, or response.json() does.  The CLI's
\* daemon_request returns the fixed text for httpx.ConnectError and str(e) for
\* every other exception (cli.py 96-98); the MCP server's has no handler
\* (server.py 43-47), check_daemon catches the exception of its own request
\* (server.py 59-60).
daemon_request_raises ==
    /\ call.op = "daemon_request" /\ call.pc = "waiting"
    /\ \E failure \in Failures :
         /\ failure = "ConnectError" => call.waited = 0
         /\ failure = "TimeoutException" => call.waited >= call.timeout
         /\ failure = "JSONDecodeError" => call.waited < call.timeout
         /\ call' = IF call.via = "cli"
                    THEN [call EXCEPT !.pc = "returned", !.ok = FALSE,
                                      !.failure = failure,
                                      !.error = IF failure = "ConnectError"
                                                THEN DaemonNotRunning ELSE failure]
                    ELSE IF call.endpoint = "health"
                    THEN [call EXCEPT !.pc = "returned", !.ok = FALSE,
                                      !.failure = failure, !.probe = "failed"]
                    ELSE [call EXCEPT !.pc = "raised", !.failure = failure]
    /\ UNCHANGED <<configured, authorized, record, listener, daemon, loginpc, cli, req, chat>>

\* ============================================================= specification
DaemonStep(p) ==
    \/ run_daemon_load_config(p)
    \/ run_daemon_check_pid(p)
    \/ run_daemon_write_pid(p)
    \/ run_daemon_connect(p)
    \/ run_daemon_listen(p)
    \/ run_daemon_handle_signal(p)
    \/ shutdown_disconnect(p)
    \/ shutdown_unlink(p)
    \/ runner_cleanup(p)

Lifecycle ==
    \/ \E p \in Procs : main_start(p)
    \/ \E p \in Procs : DaemonStep(p)

Login ==
    \/ do_login_open
    \/ do_login_check
    \/ do_login_sign_in

Requests ==
    \/ \E r \in Reqs : request_arrive(r)
    \/ \E r \in Reqs : handler_get_client(r)
    \/ \E r \in Reqs : UserClient_connect_invoke(r)
    \/ \E r \in Reqs : handler_is_authorized(r)
    \/ \E r \in Reqs : handler_get_me(r)

CliStart ==
    \/ cli_daemon_start
    \/ cli_daemon_start_load_config
    \/ cli_daemon_start_spawn
    \/ cli_daemon_start_poll

Stop ==
    \/ stop_exists("stop")
    \/ stop_exists("dstop")
    \/ stop_kill
    \/ cli_daemon_stop_wait

\* The daemon processes and the lifecycle commands.
Next == Lifecycle \/ Stop \/ CliStart

Spec == Init /\ [][Next]_vars

\* `python -m mcp_telegram.daemon stop`
DaemonPyStop ==
    \/ stop_exists("dstop")
    \/ stop_kill

\* The daemon processes with `tg daemon start` and daemon.py's stop.
NextStart == Lifecycle \/ CliStart \/ DaemonPyStop

SpecStart == Init /\ [][NextStart]_vars

Status ==
    \/ status_exists("status")
    \/ status_exists("dstatus")
    \/ status_kill
    \/ status_health

\* `tg daemon restart`: daemon_stop, the settle delay, daemon_start.
Restart ==
    \/ stop_exists("restart")
    \/ daemon_restart_settle

\* The daemon processes and the lifecycle commands, restart included.
NextRestart == Next \/ Restart

SpecRestart == Init /\ [][NextRestart]_vars

\* The daemon processes with both status commands and daemon.py's stop.
NextStatus == Lifecycle \/ Status \/ DaemonPyStop

SpecStatus == Init /\ [][NextStatus]_vars

\* The daemon processes with `tg daemon stop` and daemon.py's stop.
NextStop == Lifecycle \/ Stop

SpecStop == Init /\ [][NextStop]_vars

\* The daemon processes, the login collaborator and daemon.py's stop.
NextLogin == Lifecycle \/ Login \/ DaemonPyStop

SpecLogin == Init /\ [][NextLogin]_vars

\* One daemon process serving concurrent control requests while the transport
\* may drop, and daemon.py's stop.
NextServe ==
    \/ main_start(1)
    \/ \E p \in Procs : DaemonStep(p)
    \/ Requests
    \/ connection_lost(1)
    \/ DaemonPyStop

SpecServe == Init /\ [][NextServe]_vars

\* One control request at a time, of any route, with its environment.
Handlers ==
    \/ request_arrive(1)
    \/ request_post(1)
    \/ handler_validate(1)
    \/ handler_get_client(1)
    \/ UserClient_connect_invoke(1)
    \/ handler_is_authorized(1)
    \/ handler_get_me(1)
    \/ handler_backend_op(1)
    \/ file_removed(1)

\* One daemon process serving the routes while the session may be revoked and
\* the transport may drop, and daemon.py's stop.
NextOps ==
    \/ main_start(1)
    \/ \E p \in Procs : DaemonStep(p)
    \/ Handlers
    \/ session_revoked
    \/ connection_lost(1)
    \/ DaemonPyStop

SpecOps == Init /\ [][NextOps]_vars

\* The CLI's user commands and the MCP server's user tools as clients of the
\* daemon.
NextClients ==
    \/ cli_user_command
    \/ cli_is_daemon_running
    \/ call_tool
    \/ time_passes
    \/ check_daemon_response
    \/ daemon_request_response
    \/ daemon_request_raises

SpecClients == Init /\ [][NextClients]_vars

\* The state in which UserClient operations are studied on their own: a
\* connected, authorized client and any conversation on the backend.
InitChat ==
    /\ configured = TRUE
    /\ authorized = TRUE
    /\ record = Absent
    /\ listener = 0
    /\ daemon = [p \in Procs |-> NewDaemon]
    /\ loginpc = "idle"
    /\ cli = IdleCli
    /\ req = [r \in Reqs |-> IdleReq]
    /\ chat \in Conversations
    /\ call = NoCall

\* The UserClient operations on one conversation.
NextChat ==
    \/ UserClient_get_messages
    \/ UserClient_download_media

SpecChat == InitChat /\ [][NextChat]_vars

\* Reading a conversation that holds one message with any media.
InitMedia ==
    /\ configured = TRUE
    /\ authorized = TRUE
    /\ record = Absent
    /\ listener = 0
    /\ daemon = [p \in Procs |-> NewDaemon]
    /\ loginpc = "idle"
    /\ cli = IdleCli
    /\ req = [r \in Reqs |-> IdleReq]
    /\ chat \in {<<[id |-> id, kind |-> "message", text |-> text, media |-> media]>> :
                    id \in MsgIds, text \in {None, "old"}, media \in Medias}
    /\ call = NoCall

NextMedia == UserClient_get_messages

SpecMedia == InitMedia /\ [][NextMedia]_vars

\* Deleting from any conversation.
NextDelete == UserClient_delete_messages

SpecDelete == InitChat /\ [][NextDelete]_vars

\* Editing and reading any conversation.
NextEdit ==
    \/ UserClient_edit_message
    \/ UserClient_get_messages

SpecEdit == InitChat /\ [][NextEdit]_vars

\* UserClient.search_dialogs studied on its own: any dialog stream, query and
\* limit.
InitDialogs ==
    /\ configured = TRUE
    /\ authorized = TRUE
    /\ record = Absent
    /\ listener = 0
    /\ daemon = [p \in Procs |-> NewDaemon]
    /\ loginpc = "idle"
    /\ cli = IdleCli
    /\ req = [r \in Reqs |-> IdleReq]
    /\ chat = <<>>
    /\ call \in [op : {"search_dialogs"}, pc : {"called"}, stream : DialogStreams,
                  query : Queries, limit : 0..MaxDialogs, result : {<<>>}]

NextDialogs == UserClient_search_dialogs

SpecDialogs == InitDialogs /\ [][NextDialogs]_vars

\* A live process keeps running: its event loop takes the next step of
\* run_daemon, delivers a pending signal and runs the shutdown code.
FairSpec == Spec /\ \A p \in Procs : WF_vars(DaemonStep(p))

\* run_daemon from its entry to serving or to a failed start.
DaemonStartStep(p) ==
    \/ run_daemon_load_config(p)
    \/ run_daemon_check_pid(p)
    \/ run_daemon_write_pid(p)
    \/ run_daemon_connect(p)
    \/ run_daemon_listen(p)

\* `tg daemon start` as the only source of daemon processes, which start and
\* serve or fail to start.
NextCliStart ==
    \/ \E p \in Procs : DaemonStartStep(p)
    \/ CliStart

\* The steps of a `tg daemon start` that has been issued.
CliStartStep ==
    \/ cli_daemon_start_load_config
    \/ cli_daemon_start_spawn
    \/ cli_daemon_start_poll

\* The CLI process keeps running: load_config, Popen and each probe return
\* (every probe is an HTTP request with a timeout, cli.py 103).
FairCliStart == Init /\ [][NextCliStart]_vars /\ WF_vars(CliStartStep)

\* ==================================================================== claims

\* C1: inside one daemon process at most one UserClient object ever exists, and
\* every get_client() call returns that object, the one run_daemon created (the
\* first one the process constructed).
C1_SingleUserClient ==
    /\ \A p \in Procs : daemon[p].made <= 1
    /\ \A r \in Reqs :
         req[r].pc \in {"is_authorized", "get_me"} =>
           /\ req[r].client = 1
           /\ daemon[req[r].d].client = 1

\* Two handlers are past get_client() at once, in a daemon that constructed its
\* UserClient in run_daemon.
C1_Witness ==
    \E r1, r2 \in Reqs :
        /\ r1 # r2
        /\ req[r1].pc = "get_me" /\ req[r2].pc = "is_authorized"
        /\ req[r1].d = req[r2].d
        /\ daemon[req[r1].d].made = 1

\* Processes that hold the Session file open.
SessionHolders ==
    Cardinality({p \in Procs : daemon[p].sess}) + (IF LoginHoldsSession THEN 1 ELSE 0)

\* C2: at most one process holds the Session file open at any instant, for any
\* interleaving of start and login commands.
C2_OneSessionHolder == SessionHolders <= 1

\* C3: the Process Record never holds the pid of a starting daemon that has not
\* yet successfully authorized.
C3_RecordOnlyAfterAuth ==
    \A p \in Procs : (record = p /\ Alive(p)) => daemon[p].me

\* C4: once a start attempt has failed before serving (connection error,
\* unauthorized session, listener failing to bind), no Process Record written by
\* it remains.
C4_FailedStartLeavesNoRecord ==
    \A p \in Procs :
        daemon[p].outcome \in {"connect_failed", "bind_failed"} => record # p

\* C5: a daemon serves the control channel only if backend authorization
\* succeeded during its startup.
C5_ServingOnlyIfAuthorized ==
    \A p \in Procs : daemon[p].pc = "serving" => daemon[p].me

\* C6: run_daemon started while the Process Record names a live process is a
\* no-op: it reports already running, constructs no UserClient, starts no
\* listener and leaves the Process Record unchanged.
C6_AlreadyRunningIsNoOp ==
    [][\A p \in Procs :
          /\ (daemon[p].pc = "check_pid" /\ KillSucceeds(record)
                 /\ daemon'[p].pc # "check_pid")
               => /\ daemon'[p].outcome = "already_running"
                  /\ record' = record
                  /\ listener' = listener
          /\ daemon'[p].outcome = "already_running"
               => /\ daemon'[p].made = 0
                  /\ ~daemon'[p].wrote
                  /\ ~daemon'[p].sess
                  /\ listener' # p]_vars

\* A run_daemon that found the record naming a live process has ended.
C6_Witness ==
    \E p \in Procs :
        /\ daemon[p].outcome = "already_running"
        /\ KillSucceeds(record)

\* C7: `tg daemon start` issued while the record names a live daemon process
\* reports already running and spawns no daemon process, whatever the health
\* probe returns.
C7_CliStartNoSpawnWhenRunning ==
    (cli.cmd = "start" /\ cli.live) =>
        /\ cli.child = 0
        /\ cli.pc = "done" => cli.report = "already_running"

\* C8: stop on a record whose process is not alive reports not-running, not a
\* failure.
C8_StopOnStaleReportsNotRunning ==
    (cli.cmd \in {"stop", "dstop"} /\ cli.pc = "done" /\ cli.stale) =>
        cli.report = "not_running"

\* C9: on graceful shutdown a failing disconnect does not prevent the removal of
\* the Process Record and the cleanup of the listener.
C9_CleanupStepsIndependent ==
    \A p \in Procs :
        daemon[p].outcome \in {"stopped", "shutdown_error"} => record # p

\* C10: a serving daemon that received a termination signal eventually has its
\* connection closed, the Process Record removed and the process gone.
C10_SignalLeadsToCleanExit ==
    \A p \in Procs :
        (daemon[p].pc = "shutdown") ~>
            (daemon[p].pc = "exited" /\ ~daemon[p].connected /\ record # p)

\* C11: a POST request whose body lacks (or has empty) a required field
\* (send_message: entity, message; send_file: entity, file_path; get_messages:
\* entity; download_media: entity, message_id, save_path; edit_message: entity,
\* message_id, text; delete_messages: entity, message_ids) is answered ok=false,
\* and neither get_client() nor any backend operation is invoked for it.
C11_MissingFieldRejected ==
    \A r \in Reqs :
        LET q == req[r]
            required ==
                CASE q.op = "send_message"    -> {"entity", "message"}
                  [] q.op = "send_file"       -> {"entity", "file_path"}
                  [] q.op = "get_messages"    -> {"entity"}
                  [] q.op = "download_media"  -> {"entity", "message_id", "save_path"}
                  [] q.op = "edit_message"    -> {"entity", "message_id", "text"}
                  [] q.op = "delete_messages" -> {"entity", "message_ids"}
                  [] OTHER                    -> {}
        IN  (q.op \in Ops /\ q.json /\ ~(required \subseteq q.body)) =>
                /\ q.client = 0
                /\ q.calls = 0
                /\ q.pc = "idle" => (q.resp.kind = "json" /\ ~q.resp.ok)

\* C12: every handler answers with a JSON envelope whose ok is a boolean, for
\* every outcome: a malformed body, NotAuthorized and any exception raised by
\* the backend operation all become ok=false with an error description, and no
\* exception escapes the handler.
C12_AlwaysEnvelope ==
    \A r \in Reqs :
        LET q == req[r]
        IN  /\ q.resp.kind # "raised"
            /\ (q.pc = "idle" /\ q.op # "none") =>
                  /\ q.resp.kind = "json"
                  /\ q.resp.ok \in BOOLEAN
                  /\ q.resp.ok <=> q.resp.error = ""
                  /\ ~q.json => ~q.resp.ok
                  /\ q.authz = "no" => ~q.resp.ok

\* A POST request whose backend operation was invoked and raised has been
\* answered.
C12_Witness ==
    \E r \in Reqs :
        /\ req[r].pc = "idle" /\ req[r].op \in Ops
        /\ req[r].calls = 1
        /\ req[r].resp = [kind |-> "json", ok |-> FALSE, error |-> "RPCError"]

\* C13: health() on a session that is not authorized is answered ok=false with
\* the not-authorized description and never raises; it is answered ok=true only
\* when the authorization was verified and get_me was invoked and returned.
C13_HealthReflectsAuthorization ==
    \A r \in Reqs :
        LET q == req[r]
        IN  q.op = "health" =>
              /\ q.resp.kind # "raised"
              /\ q.authz = "no" =>
                    /\ q.pc = "idle"
                    /\ q.resp = [kind |-> "json", ok |-> FALSE, error |-> NotAuthorized]
                    /\ q.calls = 0
              /\ q.resp.ok => (q.authz = "yes" /\ q.calls = 1)

\* A health request found the session unauthorized and has been answered.
C13_Witness ==
    \E r \in Reqs :
        /\ req[r].op = "health" /\ req[r].pc = "idle"
        /\ req[r].authz = "no"
        /\ ~req[r].resp.ok

\* C14: while the session is unauthorized every control operation fails with
\* NotAuthorized before its backend operation is invoked; the authorization is
\* asked again on every request rather than remembered, and serving a request
\* never authorizes the session (no interactive authorization is started).
C14_UnauthorizedRejectedBeforeBackend ==
    /\ [](\A r \in Reqs :
            LET q == req[r]
            IN  /\ q.authz = "no" =>
                      /\ q.pc = "idle"
                      /\ ~q.resp.ok
                      /\ q.resp.error = NotAuthorized
                      /\ q.calls = 0
                /\ q.calls > 0 => q.authz = "yes")
    /\ [][authorized' # authorized => (req' = req /\ daemon' = daemon)]_vars

\* A POST request was rejected as unauthorized by a daemon whose startup had
\* verified the authorization: the answer came from asking again.
C14_Witness ==
    \E r \in Reqs :
        /\ req[r].op \in Ops /\ req[r].pc = "idle"
        /\ req[r].authz = "no"
        /\ req[r].resp.error = NotAuthorized
        /\ listener # 0 /\ daemon[listener].me

\* C15: send_file with a path that does not exist fails with FileNotFound and
\* issues zero network calls: neither a transport connect nor the upload has
\* been attempted for the request when it fails, whether or not the connection
\* was already connected.
C15_FileNotFoundBeforeNetwork ==
    \A r \in Reqs :
        (req[r].op = "send_file" /\ req[r].pc = "idle"
            /\ req[r].resp.error = FileNotFound) =>
                /\ req[r].connects = 0
                /\ req[r].calls = 0

\* C16: start with credentials not fully configured fails fast: the daemon
\* process exits reporting it, having written no Process Record, constructed no
\* UserClient, opened no session and started no listener; the CLI start reports
\* it without spawning a daemon; neither writes the configuration (no
\* interactive setup).
C16_NotConfiguredFailsFast ==
    /\ [][\A p \in Procs :
            (daemon[p].pc = "load_config" /\ ~configured
                /\ daemon'[p].pc # "load_config")
              => /\ daemon'[p].outcome = "not_configured"
                 /\ record' = record
                 /\ listener' = listener
                 /\ configured' = configured
                 /\ authorized' = authorized]_vars
    /\ [][(cli.cmd = "start" /\ cli.pc = "load_config" /\ ~configured /\ cli' # cli)
              => /\ cli'.pc = "done" /\ cli'.report = "not_configured"
                 /\ daemon' = daemon
                 /\ record' = record
                 /\ configured' = configured]_vars
    /\ [](\A p \in Procs :
            daemon[p].outcome = "not_configured"
              => /\ ~daemon[p].wrote
                 /\ daemon[p].made = 0
                 /\ ~daemon[p].sess
                 /\ listener # p)
    /\ []((cli.cmd = "start" /\ cli.report = "not_configured") => cli.child = 0)

\* A daemon process has exited as not configured and the CLI start has
\* reported the same.
C16_Witness ==
    /\ \E p \in Procs : daemon[p].outcome = "not_configured"
    /\ cli.cmd = "start" /\ cli.report = "not_configured"

\* C17: start when the Process Record is present but stale (its process is
\* dead or its content does not parse) is treated as not running: startup
\* proceeds, and when that start succeeds (the daemon begins serving) the
\* Process Record holds the new daemon's pid.
C17_StaleRecordReplaced ==
    /\ [][\A p \in Procs :
            (daemon[p].pc = "check_pid" /\ record # Absent /\ ~KillSucceeds(record)
                /\ daemon'[p].pc # "check_pid")
              => daemon'[p].pc = "write_pid"]_vars
    /\ [][\A p \in Procs :
            (daemon[p].stale /\ daemon[p].pc # "serving" /\ daemon'[p].pc = "serving")
              => record' = p]_vars

\* C18: status reports exactly one of four states, decided by what it finds:
\* not-running when there is no Process Record; stale-record when the record
\* exists but names no live process; running-and-healthy when the recorded
\* process is alive and the health request is answered ok; running-but-unhealthy
\* when the process is alive and the health request fails.
C18_StatusFourStates ==
    /\ []((cli.cmd \in {"status", "dstatus"} /\ cli.pc = "done") =>
            cli.report \in {"not_running", "stale", "running_healthy",
                            "running_unhealthy"})
    /\ []((cli.cmd \in {"status", "dstatus"} /\ cli.pc = "health") =>
            (cli.pid \in Procs /\ cli.live))
    /\ [][(cli'.cmd \in {"status", "dstatus"} /\ cli'.pc = "done" /\ cli' # cli) =>
            \/ cli'.report = "not_running" /\ cli.pc = "done" /\ record = Absent
            \/ cli'.report = "stale" /\ cli.pc = "kill" /\ ~KillSucceeds(record)
            \/ /\ cli'.report = "running_healthy" /\ cli.pc = "health"
               /\ listener # 0 /\ daemon[listener].pc = "serving" /\ authorized
            \/ cli'.report = "running_unhealthy" /\ cli.pc = "health"]_vars
    /\ [][(cli.cmd \in {"status", "dstatus"} /\ cli' # cli /\ cli.pc # "done") =>
            /\ (cli.pc = "kill" /\ KillSucceeds(record)) => cli'.pc = "health"
            /\ (cli.pc = "kill" /\ ~KillSucceeds(record)) => cli'.report = "stale"]_vars

\* status has reported a stale record, and the record it read named a process
\* that had exited.
C18_Witness ==
    /\ cli.cmd \in {"status", "dstatus"} /\ cli.pc = "done"
    /\ cli.report = "stale" /\ cli.stale

C20_RestartServesNewProcess ==
    /\ (cli.cmd = "restart" /\ cli.pc \in {"load_config", "spawn", "poll", "done"})
          => cli.stopped # ""
    /\ (cli.cmd = "restart" /\ cli.pc = "done" /\ cli.pid # 0
            /\ cli.report \in {"already_running", "started"})
          => listener # cli.pid

\* C21: get_messages returns exactly the non-service, non-empty messages among
\* the raw items it fetched, in the backend's newest-first order: no service or
\* placeholder item appears in the result and no real message among the fetched
\* items is dropped.
C21_GetMessagesFiltersServiceOnly ==
    (call.op = "get_messages" /\ call.ok) =>
        LET fetched == iter_messages(call.limit)
            real == SelectSeq(fetched, LAMBDA m : m.kind = "message")
        IN  /\ Len(call.result) = Len(real)
            /\ \A i \in DOMAIN real : call.result[i].id = real[i].id
            /\ \A i \in DOMAIN call.result :
                 \E j \in DOMAIN fetched :
                    fetched[j].id = call.result[i].id /\ fetched[j].kind = "message"

\* get_messages fetched a service item, an empty item and a real message and
\* returned the one real message.
C21_Witness ==
    /\ call.op = "get_messages" /\ call.ok /\ call.limit = 3
    /\ Len(chat) = 3 /\ Len(call.result) = 1
    /\ \E i, j \in DOMAIN chat : chat[i].kind = "service" /\ chat[j].kind = "empty"

C23_DeletedCountsRequested ==
    (call.op = "delete_messages" /\ call.ok) =>
        call.result.deleted = Len(call.message_ids)

\* Two identifiers were requested, fewer than two messages were removed, and
\* the call reported two.
C23_Witness ==
    /\ call.op = "delete_messages" /\ call.ok
    /\ Len(call.message_ids) = 2
    /\ call.affected < 2
    /\ call.result.deleted = 2

\* C24: a successful edit_message(ref, id, text) returns the identifier it was
\* given, and a get_messages that follows it on the same conversation and
\* reaches id returns a message with that identifier whose body is text.
C24_EditThenGetRoundTrip ==
    [][(call.op = "edit_message" /\ call.ok) =>
          /\ call.result.message_id = call.message_id
          /\ (/\ call'.op = "get_messages" /\ call'.ok
              /\ \E i \in 1..call'.limit : i <= Len(chat) /\ chat[i].id = call.message_id)
             => \E k \in DOMAIN call'.result :
                   /\ call'.result[k].id = call.message_id
                   /\ call'.result[k].text = call.text]_vars

\* A message that was read back right after its body was changed to "new".
C24_Witness ==
    /\ call.op = "get_messages" /\ call.ok
    /\ \E k \in DOMAIN call.result : call.result[k].text = "new"

\* C25: download_media fails with the not-found error when the message does
\* not exist and with the no-media error when it carries no media; in both
\* cases no download is attempted and no file is written.
C25_DownloadNotFound ==
    call.op = "download_media" =>
        LET found == get_messages_ids(call.message_id)
        IN  /\ found = {} =>
                 /\ ~call.out.ok /\ call.out.error = "Message not found"
                 /\ ~call.out.attempted /\ ~call.out.written
            /\ (found # {} /\ \A i \in found : chat[i].media = NoMedia) =>
                 /\ ~call.out.ok /\ call.out.error = "Message has no media"
                 /\ ~call.out.attempted /\ ~call.out.written

\* A download was refused for a message that exists and carries no media.
C25_Witness ==
    /\ call.op = "download_media"
    /\ \E i \in DOMAIN chat : chat[i].id = call.message_id /\ chat[i].kind = "message"
                               /\ chat[i].media = NoMedia
    /\ call.out.error = "Message has no media"

\* C27: a validation failure names the missing field: when exactly one
\* required field of a POST body is missing, the error text is
\* "<field> is required" for that field, and names no field that was supplied.
C27_ErrorNamesMissingField ==
    \A r \in Reqs :
        LET q == req[r]
            missing == Required(q.op) \ q.body
            is_required(f) ==
                CASE f = "entity"      -> "entity is required"
                  [] f = "file_path"   -> "file_path is required"
                  [] f = "message_id"  -> "message_id is required"
                  [] f = "save_path"   -> "save_path is required"
                  [] f = "text"        -> "text is required"
                  [] f = "message_ids" -> "message_ids is required"
                  [] OTHER             -> "is required"
        IN  (/\ q.pc = "idle" /\ q.op \in Ops /\ q.json
             /\ q.resp = json_response(FALSE, ValidationError(q.op))
             /\ Cardinality(missing) = 1) =>
                \A f \in missing : q.resp.error = is_required(f)

\* C26: a client request for a long-running transfer (the download of media
\* and the upload of send_file) is made with a timeout strictly greater than
\* the default timeout of the same client.
C26_TransfersUseLongerTimeout ==
    (call.op = "daemon_request" /\ call.endpoint \in {"download_media", "send_file"}) =>
        call.timeout > (IF call.via = "cli" THEN CliDefaultTimeout
                        ELSE McpDefaultTimeout)

\* C28: for any interleaving of concurrent control requests, the transport's
\* connect is invoked only on a BackendConnection that is not connected at the
\* moment of the invocation.
C28_ConnectOnlyWhenDisconnected ==
    [][\A r \in Reqs :
          req'[r].connects > req[r].connects => ~daemon[req[r].d].connected]_vars

\* Two handlers are suspended inside connect() at once: both found the
\* connection down before either connect completed.
C28_Witness ==
    \E r1, r2 \in Reqs :
        /\ r1 # r2
        /\ req[r1].dialing /\ req[r2].dialing
        /\ req[r1].d = req[r2].d
        /\ ~daemon[req[r1].d].connected

\* C29: whenever a daemon process is serving the control server, the Process
\* Record exists and holds that daemon's pid, under any interleaving of start,
\* failed-start and stop commands of other processes.
C29_ServingImpliesOwnRecord ==
    \A p \in Procs : daemon[p].pc = "serving" => record = p

\* C30: a daemon process removes the Process Record only when the record holds
\* its own pid: neither its failed-start cleanup nor its shutdown cleanup
\* deletes a record that names a different, live daemon process.
C30_RemovesOnlyOwnRecord ==
    [][\A p \in Procs :
          (/\ daemon[p].pc \in {"connect", "unlink"}
           /\ daemon'[p].pc # daemon[p].pc
           /\ record # Absent /\ record' = Absent)
            => ~(record \in Procs /\ record # p /\ Alive(record))]_vars

\* C31: each control request invokes its backend operation at most once, and a
\* failed backend round trip is answered ok=false: neither the handler nor
\* UserClient tries the operation again.
C31_BackendOpAtMostOnce ==
    \A r \in Reqs :
        /\ req[r].calls <= 1
        /\ req[r].resp.error = "RPCError" =>
             /\ req[r].calls = 1
             /\ req[r].resp.kind = "json"
             /\ ~req[r].resp.ok

\* A POST request whose one backend call failed has been answered.
C31_Witness ==
    \E r \in Reqs :
        /\ req[r].pc = "idle" /\ req[r].op \in Ops
        /\ req[r].calls = 1
        /\ req[r].resp = json_response(FALSE, "RPCError")

\* C32: a step of `stop` removes the Process Record only when signalling the
\* recorded process fails or the record does not parse, and then the record is
\* absent once stop has returned; when the signal is delivered to a live
\* process every step of stop leaves the record as it is, so that only the
\* daemon's own shutdown removes it.
C32_StopRemovesOnlyStaleRecord ==
    [][(cli' # cli /\ cli'.cmd \in {"stop", "dstop"}) =>
          /\ record' # record =>
               (cli.pc = "kill" /\ ~KillSucceeds(record) /\ record' = Absent)
          /\ (cli.pc = "kill" /\ ~KillSucceeds(record)) =>
               (record' = Absent /\ cli'.pc = "done")
          /\ (cli.pc = "kill" /\ KillSucceeds(record)) =>
               (record' = record /\ daemon'[record].sig)]_vars

\* Stop found a record naming a dead process, has returned, and the record is
\* gone.
C32_Witness ==
    /\ cli.cmd \in {"stop", "dstop"} /\ cli.pc = "done"
    /\ cli.stale
    /\ record = Absent

\* C33: status is read-only: every step of it, in every outcome, leaves the
\* Process Record and the listener as they are and delivers no signal to any
\* process (its os.kill(pid, 0) is a probe); a stale record it reported is
\* still there when it has returned.
C33_StatusReadOnly ==
    [][(cli' # cli /\ cli'.cmd \in {"status", "dstatus"}) =>
          /\ record' = record
          /\ listener' = listener
          /\ \A p \in Procs :
               /\ daemon'[p].sig = daemon[p].sig
               /\ daemon'[p].pc = daemon[p].pc]_vars

\* Status has reported a stale record, which is still in place.
C33_Witness ==
    /\ cli.cmd \in {"status", "dstatus"} /\ cli.pc = "done"
    /\ cli.report = "stale"
    /\ record # Absent

\* C34: `tg daemon start` in background mode always terminates: its polling
\* loop makes at most StartPolls probes, it reports success only at a probe
\* that returned ok (the listener is serving an authorized session), and
\* otherwise it ends reporting a failure.
C34_CliStartTerminates ==
    /\ []((cli.cmd = "start" /\ cli.pc = "poll") => (cli.n >= 0 /\ cli.n < StartPolls))
    /\ [][(cli' # cli /\ cli'.cmd = "start" /\ cli'.pc = "done") =>
            /\ cli'.report \in {"already_running", "started", "not_configured", "failed"}
            /\ cli'.report \in {"already_running", "started"} =>
                 (listener # 0 /\ daemon[listener].pc = "serving" /\ authorized)
            /\ cli'.report = "failed" => (cli.pc = "poll" /\ cli.n + 1 = StartPolls)]_vars
    /\ (/\ cli.cmd = "start"
        /\ \/ cli.pc = "poll"
           \/ cli.pc \in {"load_config", "spawn"} /\ \E p \in Procs : daemon[p].pc = "none")
         ~> (cli.cmd = "start" /\ cli.pc = "done")

\* The start command gave up after its last probe.
C34_Witness ==
    /\ cli.cmd = "start" /\ cli.pc = "done"
    /\ cli.report = "failed"
    /\ cli.child # 0

\* C35: search_dialogs inspects no more than limit entries of the backend
\* dialog stream: every returned entry is among the first limit entries, so a
\* matching dialog that lies after them is not returned, even when fewer than
\* limit matches were collected.
C35_SearchInspectsOnlyFirstLimit ==
    (call.op = "search_dialogs" /\ call.pc = "returned") =>
        /\ \A i \in DOMAIN call.result : call.result[i].id <= call.limit
        /\ \A k \in DOMAIN call.stream :
              k > call.limit => \A i \in DOMAIN call.result : call.result[i].id # k

\* A search for "c" with limit 2 returned nothing although the third dialog of
\* the stream is named "c".
C35_Witness ==
    /\ call.op = "search_dialogs" /\ call.pc = "returned"
    /\ call.query = <<"c">> /\ call.limit = 2
    /\ Len(call.stream) = 3
    /\ call.stream[3].name = <<"c">>
    /\ call.result = <<>>

\* C36: the media type of a returned message is exactly one of photo, document,
\* voice, audio, other: photo media gives photo; document media gives voice
\* when its audio attribute has the voice flag, audio when it has an audio
\* attribute without the flag, document otherwise; any other media gives
\* other; a message without media carries no media type.  The file name plays
\* no part.
C36_MediaTypeClassification ==
    (call.op = "get_messages" /\ call.ok) =>
        \A k \in DOMAIN call.result :
        \A i \in DOMAIN chat :
            chat[i].id = call.result[k].id =>
                LET media == chat[i].media
                    audio == {j \in DOMAIN media.attributes :
                                 media.attributes[j].attr = "audio"}
                    expected ==
                        CASE media.type = "none" -> None
                          [] media.type = "photo" -> "photo"
                          [] media.type = "document" ->
                               IF \E j \in audio : media.attributes[j].voice THEN "voice"
                               ELSE IF audio # {} THEN "audio"
                               ELSE "document"
                          [] OTHER -> "other"
                IN  /\ call.result[k].media_type = expected
                    /\ call.result[k].has_media = (media.type # "none")

\* A document named a.ogg that has no audio attribute was returned as a
\* document.
C36_Witness ==
    /\ call.op = "get_messages" /\ call.ok
    /\ \E k \in DOMAIN call.result :
         /\ call.result[k].file_name = "a.ogg"
         /\ call.result[k].media_type = "document"

\* C37: in the MCP server, the operation request of a user_* tool is sent only
\* after the health probe of the same call returned ok; when the probe is not
\* ok the tool returns an error and sends no operation request.
C37_OperationOnlyAfterHealthOk ==
    (call.op = "daemon_request" /\ call.via = "mcp") =>
        /\ call.sent <= 1
        /\ (call.sent > 0 \/ call.endpoint # "health") => call.probe = "ok"
        /\ call.probe = "failed" =>
             (call.sent = 0 /\ call.pc = "returned" /\ ~call.ok)

\* A tool call whose health probe was answered without ok has returned.
C37_Witness ==
    /\ call.op = "daemon_request" /\ call.via = "mcp"
    /\ call.pc = "returned" /\ call.probe = "failed" /\ call.body = "ok_false"
    /\ call.sent = 0

\* C38: the CLI's daemon_request never raises: a refused connection gives
\* ok=false with the "Daemon not running" text, every other transport or
\* decoding failure gives ok=false with the failure's description, and
\* is_daemon_running returns true exactly when its probe returned ok=true.
C38_CliDaemonRequestNeverRaises ==
    (call.op = "daemon_request" /\ call.via = "cli") =>
        /\ call.pc # "raised"
        /\ (call.pc = "returned" /\ call.failure = "ConnectError") =>
             (~call.ok /\ call.error = DaemonNotRunning)
        /\ (call.pc = "returned" /\ call.failure \in Failures \ {"ConnectError"}) =>
             (~call.ok /\ call.error = call.failure)
        /\ (call.pc = "returned" /\ call.tool = "is_daemon_running") =>
             (call.ok <=> (call.failure = "none" /\ call.body = "ok_true"))

\* is_daemon_running returned false because its probe timed out.
C38_Witness ==
    /\ call.op = "daemon_request" /\ call.via = "cli"
    /\ call.tool = "is_daemon_running" /\ call.pc = "returned"
    /\ call.failure = "TimeoutException" /\ ~call.ok

====
